---- MODULE Spec2Model ----
(***************************************************************************)
(* Model of recourse/builder.py: RecourseBuilder and its CPLEX backend     *)
(* _RecourseBuilderCPX.  Real numbers are modelled as integers: feature    *)
(* values, coefficients and scores in units of 1, percentiles in units of  *)
(* 1/PctDen, log-odds costs in units of 1/100.  The MIP solver (CPLEX,     *)
(* an external library) is modelled as an exact solver: a solve returns    *)
(* any one optimal point of the MIP, or reports infeasibility.             *)
(***************************************************************************)
EXTENDS Integers, Sequences, FiniteSets, TLC

VARIABLES
    coefficients,     \* self._coefficients
    intercept,        \* self._intercept
    actionable,       \* action_set.actionable (one flag per feature)
    mip_cost_type,    \* self._mip_cost_type
    x,                \* self._x, or NoX
    min_items,        \* self._min_items
    max_items,        \* self._max_items
    mip,              \* self._mip with self._mip_indices, or NoMip
    pc,               \* "idle", or "populate" inside the while loop of populate
    k,                \* populate: loop counter k
    total_items,      \* populate: argument total_items
    enumeration_type, \* populate: argument enumeration_type
    all_info,         \* populate: list all_info
    n_removed,        \* populate: number of remove_solution() calls made
    last,             \* the last completed call, its arguments and its outcome
    calls             \* number of calls made on the builder

vars == << coefficients, intercept, actionable, mip_cost_type, x, min_items,
           max_items, mip, pc, k, total_items, enumeration_type, all_info,
           n_removed, last, calls >>

\* floats: a finite value num/den, float('inf'), or np.nan
Rat(n, d) == [kind |-> "num", v |-> n, den |-> d]
Num(n) == Rat(n, 1)
Inf == [kind |-> "inf"]
NaN == [kind |-> "nan"]

\* self._x = None and self._mip = None
NoX == << >>
NoMip == [present |-> FALSE]

(* bounds of the model *)
MaxCalls == 3
MaxTotalItems == 2
MaxIter == 8

(***************************************************************************)
(* numeric helpers                                                         *)
(***************************************************************************)
Abs(v) == IF v < 0 THEN -v ELSE v

\* np.sign
Sign(v) == IF v > 0 THEN 1 ELSE IF v < 0 THEN -1 ELSE 0

\* np.isclose(v, 0.0, atol = 1e-4) for a value in units of 1
IsCloseZero(v) == Abs(v) * 10000 <= 1

RECURSIVE SetSum(_, _)
SetSum(S, f) == IF S = {} THEN 0
                ELSE LET j == CHOOSE j \in S : TRUE
                     IN f[j] + SetSum(S \ {j}, f)

SetMax(S) == CHOOSE v \in S : \A w \in S : w <= v
SetMin(S) == CHOOSE v \in S : \A w \in S : v <= w

SeqMax(s) == CHOOSE v \in {s[i] : i \in DOMAIN s} : \A i \in DOMAIN s : s[i] <= v
SeqMin(s) == CHOOSE v \in {s[i] : i \in DOMAIN s} : \A i \in DOMAIN s : v <= s[i]

\* np.flip
Flip(s) == [i \in DOMAIN s |-> s[Len(s) + 1 - i]]

\* np.diff
Diff(s) == [i \in 1..(Len(s) - 1) |-> s[i + 1] - s[i]]

\* np.delete(s, drop) and np.extract for index sets (1-based)
RECURSIVE KeepIdx(_, _, _)
KeepIdx(s, keep, i) ==
    IF i > Len(s) THEN << >>
    ELSE IF i \in keep THEN << s[i] >> \o KeepIdx(s, keep, i + 1)
    ELSE KeepIdx(s, keep, i + 1)

(***************************************************************************)
(* The ActionSet collaborator (recourse/action_set.py): a grid of          *)
(* feasible values per feature with the percentile of each value.          *)
(***************************************************************************)
PctDen == 12

Grid == << << 0, 1, 2 >>, << 0, 1 >>, << 0, 1 >> >>

Percentile == << << 1, 6, 11 >>, << 1, 10 >>, << 2, 6 >> >>

\* 100 * ln(q) rounded, q in 1..PctDen
LnTab == << 0, 69, 110, 139, 161, 179, 195, 208, 220, 230, 240, 248 >>

n_variables == Len(coefficients)

Features == 1..n_variables

actionable_indices == {j \in Features : actionable[j]}

n_actionable == Cardinality(actionable_indices)

\* ActionSet.feasible_grid(x, return_actions, return_percentiles) for feature j:
\* the grid values on the side of x[j] that raises the score, as deltas
feasible_values(j, xs) ==
    LET w == coefficients[j]
        keep == {i \in DOMAIN Grid[j] :
                    IF w > 0 THEN Grid[j][i] >= xs[j]
                    ELSE IF w < 0 THEN Grid[j][i] <= xs[j]
                    ELSE TRUE}
    IN [actions |-> [i \in DOMAIN KeepIdx(Grid[j], keep, 1) |->
                        KeepIdx(Grid[j], keep, 1)[i] - xs[j]],
        percentiles |-> KeepIdx(Percentile[j], keep, 1)]

score(xs) == SetSum(Features, [j \in Features |-> coefficients[j] * xs[j]]) + intercept

prediction(xs) == Sign(score(xs))

(***************************************************************************)
(* _get_mip_build_info                                                     *)
(***************************************************************************)
cost_up(c) ==
    IF mip_cost_type = "local"
    THEN [i \in DOMAIN c |-> LnTab[PctDen - c[1]] - LnTab[PctDen - c[i]]]
    ELSE [i \in DOMAIN c |-> c[i] - c[1]]

cost_dn(c) ==
    IF mip_cost_type = "local"
    THEN [i \in DOMAIN c |-> LnTab[PctDen - c[i]] - LnTab[PctDen - c[1]]]
    ELSE [i \in DOMAIN c |-> c[1] - c[i]]

\* the curve of one feature: lines 349-363
feature_curve(j, xs) ==
    LET fv == feasible_values(j, xs)
        a0 == fv.actions
        flip == a0[Len(a0)] = 0
        a1 == IF flip THEN Flip(a0) ELSE a0
        c1 == IF flip THEN cost_dn(Flip(fv.percentiles)) ELSE cost_up(fv.percentiles)
        bug_idx == {i \in DOMAIN a1 : c1[i] <= 0 \/ a1[i] = 0}
        first == CHOOSE i \in bug_idx : \A i2 \in bug_idx : i <= i2
        keep == (DOMAIN a1) \ (bug_idx \ {first})
    IN [idx |-> j, coef |-> coefficients[j],
        actions |-> KeepIdx(a1, keep, 1), costs |-> KeepIdx(c1, keep, 1)]

\* the features that get a curve: line 347
built_features(xs) ==
    {j \in actionable_indices : Len(feasible_values(j, xs).actions) >= 2}

get_mip_build_info(xs) == [j \in built_features(xs) |-> feature_curve(j, xs)]

\* np.min(np.diff(c)) at line 392 raises on a curve cut down to one point
build_info_raises(build_info) ==
    \E j \in DOMAIN build_info : Len(build_info[j].costs) < 2

\* mutant: no curve is validated
check_mip_build_info_skipped(build_info) == TRUE

check_mip_build_info(build_info) ==
    \A j \in DOMAIN build_info :
        LET v == build_info[j]
            a == v.actions
            c == v.costs
        IN /\ v.coef # 0
           /\ c[1] = 0
           /\ a[1] = 0
           /\ IF Sign(v.coef) > 0
              THEN \A i \in 2..Len(a) : a[i] > 0
              ELSE \A i \in 2..Len(a) : a[i] < 0
           /\ Len(a) >= 2
           /\ Len(a) = Len(c)
           /\ Len(a) = Cardinality({a[i] : i \in DOMAIN a})
           /\ Len(c) = Cardinality({c[i] : i \in DOMAIN c})

(***************************************************************************)
(* _RecourseBuilderCPX.build_mip                                           *)
(***************************************************************************)
\* indices['cost_ub'], indices['cost_df']: lines 391-392
cost_ub(build_info) == [j \in DOMAIN build_info |-> SeqMax(build_info[j].costs)]
cost_df(build_info) == [j \in DOMAIN build_info |-> SeqMin(Diff(build_info[j].costs))]

\* indices['epsilon'] = np.min(cost_df) / np.sum(cost_ub): line 673
epsilon(build_info) ==
    LET B == DOMAIN build_info
        df == cost_df(build_info)
    IN [num |-> SetMin({df[j] : j \in B}),
        den |-> SetSum(B, cost_ub(build_info))]

\* the right-hand sides of 'max_items' (G) and 'min_items' (L): lines 603-604, 662
build_min_items == IF min_items > 1 THEN min_items ELSE 1

cardinality_rhs(n_built) ==
    [max_items |-> n_built - max_items, min_items |-> n_built - build_min_items]

\* build_mip raises: line 392, the assert at line 395, and with no curve at all
\* indices.pop('cost_var_names') at line 666 (KeyError, total and local) or
\* np.min(indices['cost_df']) at line 673 (ValueError, max)
build_mip_raises(xs) ==
    LET build_info == get_mip_build_info(xs)
    IN \/ build_info_raises(build_info)
       \/ ~ check_mip_build_info(build_info)
       \/ DOMAIN build_info = {}

build_mip(xs) ==
    LET build_info == get_mip_build_info(xs)
        n_built == Cardinality(DOMAIN build_info)
    IN [present |-> TRUE,
        build_info |-> build_info,
        score_rhs |-> - score(xs),
        max_items_rhs |-> cardinality_rhs(n_built).max_items,
        min_items_rhs |-> cardinality_rhs(n_built).min_items,
        off_lb |-> {},
        removed |-> << >>,
        epsilon |-> IF mip_cost_type = "max" THEN epsilon(build_info)
                    ELSE [num |-> 0, den |-> 1],
        solution |-> [solved |-> FALSE]]

(***************************************************************************)
(* The solver: Cplex.solve() on the MIP that build_mip and the later       *)
(* mutations describe.                                                     *)
(***************************************************************************)
\* u[j][0], the indicator that feature j is left untouched
off(p, j) == IF p.u[j] = 1 THEN 1 ELSE 0

n_off(m, p) == SetSum(DOMAIN m.build_info, [j \in DOMAIN m.build_info |-> off(p, j)])

point_cost(m, p, j) == m.build_info[j].costs[p.u[j]]

point_action(m, p, j) == m.build_info[j].actions[p.u[j]]

sum_costs(m, p) ==
    SetSum(DOMAIN m.build_info, [j \in DOMAIN m.build_info |-> point_cost(m, p, j)])

\* the indicator patterns allowed by 'pick_a' and 'set_a', and the value of max_cost
mip_points(m) ==
    LET B == DOMAIN m.build_info
        top == 1 + SetMax({0} \cup {cost_ub(m.build_info)[j] : j \in B})
        longest == SetMax({1} \cup {Len(m.build_info[j].actions) : j \in B})
    IN {[u |-> u, max_cost |-> mc] :
            u \in {f \in [B -> 1..longest] :
                        \A j \in B : f[j] <= Len(m.build_info[j].actions)},
            mc \in IF mip_cost_type = "max" THEN 0..top ELSE {0}}

\* the constraint 'score': lines 624-627
score_constraint(m, p) ==
    SetSum(DOMAIN m.build_info,
           [j \in DOMAIN m.build_info |-> m.build_info[j].coef * point_action(m, p, j)])
        >= m.score_rhs

\* the constraints 'max_items' and 'min_items': lines 658-662
items_constraints(m, p) ==
    /\ n_off(m, p) >= m.max_items_rhs
    /\ n_off(m, p) <= m.min_items_rhs

\* the constraints 'set_max_cost[j]': lines 686-698
max_cost_constraints(m, p) ==
    mip_cost_type = "max" => \A j \in DOMAIN m.build_info : p.max_cost >= point_cost(m, p, j)

\* one inequality added by remove_feature_combination
removed_constraint(m, p, con) ==
    SetSum(DOMAIN m.build_info,
           [j \in DOMAIN m.build_info |-> con.vals[j] * off(p, j)]) <= con.rhs

mip_feasible(m, p) ==
    /\ score_constraint(m, p)
    /\ items_constraints(m, p)
    /\ max_cost_constraints(m, p)
    /\ \A j \in m.off_lb : off(p, j) = 1
    /\ \A i \in DOMAIN m.removed : removed_constraint(m, p, m.removed[i])

\* the objective, times epsilon's denominator: lines 665-676
objective(m, p) ==
    IF mip_cost_type = "max"
    THEN m.epsilon.den * p.max_cost + m.epsilon.num * sum_costs(m, p)
    ELSE sum_costs(m, p)

feasible_points(m) == {p \in mip_points(m) : mip_feasible(m, p)}

optimal_points(m) ==
    LET F == feasible_points(m)
        best == SetMin({objective(m, q) : q \in F})
    IN {p \in F : objective(m, p) = best}

\* mip.solution after mip.solve()
solutions(m) ==
    IF feasible_points(m) = {}
    THEN {[solved |-> TRUE, feasible |-> FALSE]}
    ELSE {[solved |-> TRUE, feasible |-> TRUE, u |-> p.u, max_cost |-> p.max_cost,
           objective |-> objective(m, p)] : p \in optimal_points(m)}

(***************************************************************************)
(* solution records                                                        *)
(***************************************************************************)
\* mutant: the vectors sized by the actionable features
empty_mip_solution_info_n_actionable ==
    [cost |-> Inf,
     feasible |-> FALSE,
     costs |-> [j \in 1..n_actionable |-> NaN],
     actions |-> [j \in 1..n_actionable |-> NaN],
     upperbound |-> Inf,
     lowerbound |-> Inf,
     gap |-> Inf]

empty_mip_solution_info ==
    [cost |-> Inf,
     feasible |-> FALSE,
     costs |-> [j \in Features |-> NaN],
     actions |-> [j \in Features |-> NaN],
     upperbound |-> Inf,
     lowerbound |-> Inf,
     gap |-> Inf]

\* mutant: the cost is the objective value under every cost type
solution_info_cost_upperbound(m) ==
    LET sol == m.solution
        B == DOMAIN m.build_info
        upperbound == Rat(sol.objective, m.epsilon.den)
    IN IF sol.feasible
       THEN [cost |-> upperbound,
             feasible |-> TRUE,
             costs |-> [j \in Features |->
                          IF j \in B THEN Num(point_cost(m, sol, j)) ELSE Num(0)],
             actions |-> [j \in Features |->
                          IF j \in B THEN Num(point_action(m, sol, j)) ELSE Num(0)],
             upperbound |-> upperbound,
             lowerbound |-> upperbound,
             gap |-> Num(0)]
       ELSE empty_mip_solution_info

\* _RecourseBuilderCPX.solution_info, read from m.solution
solution_info(m) ==
    LET sol == m.solution
        B == DOMAIN m.build_info
        upperbound == Rat(sol.objective, m.epsilon.den)
    IN IF sol.feasible
       THEN [cost |-> IF mip_cost_type = "max" THEN Num(sol.max_cost) ELSE upperbound,
             feasible |-> TRUE,
             costs |-> [j \in Features |->
                          IF j \in B THEN Num(point_cost(m, sol, j)) ELSE Num(0)],
             actions |-> [j \in Features |->
                          IF j \in B THEN Num(point_action(m, sol, j)) ELSE Num(0)],
             upperbound |-> upperbound,
             lowerbound |-> upperbound,
             gap |-> Num(0)]
       ELSE empty_mip_solution_info

(***************************************************************************)
(* set_mip_item_limits, with the min_items and max_items setters           *)
(***************************************************************************)
\* mutant: the right-hand side is set on a MIP without its exclusions
set_mip_min_items_rebuilt(m, n_items) ==
    [m EXCEPT !.min_items_rhs = n_items, !.off_lb = {}, !.removed = << >>]

set_mip_min_items(m, n_items) == [m EXCEPT !.min_items_rhs = n_items]

set_mip_max_items(m, n_items) == [m EXCEPT !.max_items_rhs = n_items]

\* the outcome of set_mip_item_limits(mn, mx) for two integers: the exception
\* it raised, if any, and the limits and the MIP it leaves behind
set_mip_item_limits(mn, mx) ==
    LET unchanged == [raised |-> FALSE, error |-> "", min_items |-> min_items,
                      max_items |-> max_items, mip |-> mip]
        min_nnz_actions == n_actionable - mn
        min_differs == mn # min_items
        max_differs == mx # max_items
        \* after the first if statement: lines 286-289
        mid == IF ~ min_differs THEN unchanged
               ELSE IF ~ mip.present
                    THEN [unchanged EXCEPT !.raised = TRUE, !.error = "AttributeError"]
               ELSE IF mn < 0
                    THEN [unchanged EXCEPT !.raised = TRUE, !.error = "AssertionError",
                                           !.mip = set_mip_min_items(mip, min_nnz_actions)]
                    ELSE [unchanged EXCEPT !.min_items = mn,
                                           !.mip = set_mip_min_items(mip, min_nnz_actions)]
    IN IF ~ (mn <= mx)
       THEN [unchanged EXCEPT !.raised = TRUE, !.error = "AssertionError"]
       ELSE IF mid.raised \/ ~ max_differs THEN mid
       \* min_nnz_actions is unbound when the first if statement was skipped
       ELSE IF ~ min_differs
            THEN [mid EXCEPT !.raised = TRUE, !.error = "UnboundLocalError"]
       ELSE IF mx < 0
            THEN [mid EXCEPT !.raised = TRUE, !.error = "AssertionError",
                             !.mip = set_mip_max_items(mid.mip, min_nnz_actions)]
       ELSE [mid EXCEPT !.mip = set_mip_max_items(mid.mip, min_nnz_actions),
                        !.max_items = IF mx < n_actionable THEN mx ELSE n_actionable]

(***************************************************************************)
(* excluding the current solution                                          *)
(***************************************************************************)
\* the features whose no-op indicator u[j][0] is 0 in the current solution
on_idx(m) == {j \in DOMAIN m.build_info : off(m.solution, j) = 0}

\* mutant: the bound is put on the features the solution left untouched
remove_all_features_untouched(m) ==
    [m EXCEPT !.off_lb = m.off_lb \cup ((DOMAIN m.build_info) \ on_idx(m))]

remove_all_features(m) == [m EXCEPT !.off_lb = m.off_lb \cup on_idx(m)]

\* mutant: a right-hand side one too small
remove_feature_combination_strict(m) ==
    LET B == DOMAIN m.build_info
        n == Cardinality(B)
        con_vals == [j \in B |-> IF j \in on_idx(m) THEN -1 ELSE 1]
        con_rhs == n - 2 - Cardinality(on_idx(m))
    IN [m EXCEPT !.removed = Append(m.removed, [vals |-> con_vals, rhs |-> con_rhs])]

\* mutant: a right-hand side one too large
remove_feature_combination_loose(m) ==
    LET B == DOMAIN m.build_info
        n == Cardinality(B)
        con_vals == [j \in B |-> IF j \in on_idx(m) THEN -1 ELSE 1]
        con_rhs == n - Cardinality(on_idx(m))
    IN [m EXCEPT !.removed = Append(m.removed, [vals |-> con_vals, rhs |-> con_rhs])]

remove_feature_combination(m) ==
    LET B == DOMAIN m.build_info
        n == Cardinality(B)
        con_vals == [j \in B |-> IF j \in on_idx(m) THEN -1 ELSE 1]
        con_rhs == n - 1 - Cardinality(on_idx(m))
    IN [m EXCEPT !.removed = Append(m.removed, [vals |-> con_vals, rhs |-> con_rhs])]

remove_solution(m, et) ==
    IF et = "mutually_exclusive" THEN remove_all_features(m)
    ELSE remove_feature_combination(m)

(***************************************************************************)
(* the builder as a state machine                                          *)
(***************************************************************************)
\* the builders constructed: two classifiers over three actionable features,
\* one with a single actionable feature, and one whose coefficient on an
\* actionable feature is zero
Models ==
    [coefficients : {<< 2, 1, 1 >>, << 2, 1, -1 >>},
     intercept : {-4},
     actionable : {<< TRUE, TRUE, TRUE >>},
     mip_cost_type : {"total", "local", "max"}]
    \cup
    [coefficients : {<< 2, 1, 1 >>},
     intercept : {-4},
     actionable : {<< FALSE, TRUE, FALSE >>},
     mip_cost_type : {"total", "local", "max"}]
    \cup
    [coefficients : {<< 2, 1, 0 >>},
     intercept : {-4},
     actionable : {<< TRUE, TRUE, TRUE >>},
     mip_cost_type : {"total", "max"}]

\* the inputs x assigned: points of the grid, and one of the wrong length
Inputs ==
    {<< 0, 0, 0 >>, << 0, 0, 1 >>, << 2, 0, 1 >>, << 2, 0, 0 >>, << 2, 1, 0 >>,
     << 0, 0 >>}

\* total_items: an int (0 is rejected) or float('inf')
TotalItems == {Num(n) : n \in 0..MaxTotalItems} \cup {Inf}

EnumerationTypes == {"mutually_exclusive", "distinct_subsets"}

less_than(n, ti) == ti.kind = "inf" \/ n < ti.v

Init ==
    /\ \E model \in Models :
        /\ coefficients = model.coefficients
        /\ intercept = model.intercept
        /\ actionable = model.actionable
        /\ mip_cost_type = model.mip_cost_type
    /\ x = NoX
    /\ min_items = 0
    /\ max_items = n_actionable
    /\ mip = NoMip
    /\ pc = "idle"
    /\ k = 0
    /\ total_items = Num(0)
    /\ enumeration_type = "distinct_subsets"
    /\ all_info = << >>
    /\ n_removed = 0
    /\ last = [op |-> "init", raised |-> FALSE]
    /\ calls = 0

CanCall == pc = "idle" /\ calls < MaxCalls

\* the x setter: lines 174-180
SetX(xs) ==
    /\ CanCall
    /\ calls' = calls + 1
    /\ IF Len(xs) # n_variables
       THEN /\ last' = [op |-> "x", raised |-> TRUE, error |-> "AssertionError"]
            /\ UNCHANGED << x, mip >>
       ELSE /\ x' = xs
            /\ IF build_mip_raises(xs)
               THEN /\ last' = [op |-> "x", raised |-> TRUE, error |-> "build_mip"]
                    /\ UNCHANGED mip
               ELSE /\ last' = [op |-> "x", raised |-> FALSE, x |-> xs]
                    /\ mip' = build_mip(xs)
    /\ UNCHANGED << coefficients, intercept, actionable, mip_cost_type, min_items,
                    max_items, pc, k, total_items, enumeration_type, all_info,
                    n_removed >>

\* set_mip_item_limits: lines 270-296
SetMipItemLimits(mn, mx) ==
    /\ CanCall
    /\ calls' = calls + 1
    /\ LET out == set_mip_item_limits(mn, mx)
       IN /\ min_items' = out.min_items
          /\ max_items' = out.max_items
          /\ mip' = out.mip
          /\ last' = IF out.raised
                      THEN [op |-> "set_mip_item_limits", raised |-> TRUE,
                            error |-> out.error]
                      ELSE [op |-> "set_mip_item_limits", raised |-> FALSE]
    /\ UNCHANGED << coefficients, intercept, actionable, mip_cost_type, x, pc, k,
                    total_items, enumeration_type, all_info, n_removed >>

\* set_mip_item_limits with an argument left at None: line 278
SetMipItemLimitsNone ==
    /\ CanCall
    /\ calls' = calls + 1
    /\ last' = [op |-> "set_mip_item_limits_none", raised |-> FALSE]
    /\ UNCHANGED << coefficients, intercept, actionable, mip_cost_type, x, min_items,
                    max_items, mip, pc, k, total_items, enumeration_type, all_info,
                    n_removed >>

\* fit: lines 494-516
Fit ==
    /\ CanCall
    /\ calls' = calls + 1
    /\ IF ~ mip.present
       THEN /\ last' = [op |-> "fit", raised |-> TRUE, error |-> "AssertionError"]
            /\ UNCHANGED mip
       ELSE \E sol \in solutions(mip) :
            /\ mip' = [mip EXCEPT !.solution = sol]
            /\ last' = [op |-> "fit", raised |-> FALSE,
                        info |-> solution_info([mip EXCEPT !.solution = sol])]
    /\ UNCHANGED << coefficients, intercept, actionable, mip_cost_type, x, min_items,
                    max_items, pc, k, total_items, enumeration_type, all_info,
                    n_removed >>

\* populate up to the while loop: lines 529-547
Populate(ti, et) ==
    /\ CanCall
    /\ calls' = calls + 1
    /\ IF ~ mip.present \/ ~ (ti.kind = "inf" \/ ti.v >= 1)
       THEN /\ last' = [op |-> "populate", raised |-> TRUE, error |-> "AssertionError"]
            /\ UNCHANGED << pc, k, total_items, enumeration_type, all_info, n_removed >>
       ELSE /\ pc' = "populate"
            /\ k' = 0
            /\ total_items' = ti
            /\ enumeration_type' = et
            /\ all_info' = << >>
            /\ n_removed' = 0
            /\ UNCHANGED last
    /\ UNCHANGED << coefficients, intercept, actionable, mip_cost_type, x, min_items,
                    max_items, mip >>

\* mip.variables.set_lower_bounds([...]) at line 843 is handed an empty list
\* when the solution changes no feature; CPLEX then either does nothing or
\* raises ValueError, depending on its version
set_lower_bounds_raises(m, et) ==
    IF m.solution.solved /\ m.solution.feasible /\ et = "mutually_exclusive"
            /\ on_idx(m) = {}
    THEN {FALSE, TRUE} ELSE {FALSE}

\* mutant: the record is appended before its feasibility is looked at
populate_pass_append_first(m, sol, infos, kk, raises) ==
    LET solved == [m EXCEPT !.solution = sol]
        info == solution_info(solved)
    IN IF ~ info.feasible
       THEN [all_info |-> Append(infos, info), mip |-> solved, k |-> kk,
             removals |-> 0, done |-> TRUE, raised |-> FALSE]
       ELSE IF raises
       THEN [all_info |-> Append(infos, info), mip |-> solved, k |-> kk,
             removals |-> 0, done |-> TRUE, raised |-> TRUE]
       ELSE [all_info |-> Append(infos, info),
             mip |-> remove_solution(solved, enumeration_type),
             k |-> kk + 1, removals |-> 1,
             done |-> ~ less_than(kk + 1, total_items), raised |-> FALSE]

\* one pass of the while loop, lines 549-557, given the solution the solver
\* returns and whether remove_solution() raises: the list, the MIP and the
\* counter after it, the number of remove_solution() calls completed, whether
\* the loop ends, and whether the pass raised
populate_pass(m, sol, infos, kk, raises) ==
    LET solved == [m EXCEPT !.solution = sol]
        info == solution_info(solved)
    IN IF ~ info.feasible
       THEN [all_info |-> infos, mip |-> solved, k |-> kk, removals |-> 0,
             done |-> TRUE, raised |-> FALSE]
       ELSE IF raises
       THEN [all_info |-> Append(infos, info), mip |-> solved, k |-> kk,
             removals |-> 0, done |-> TRUE, raised |-> TRUE]
       ELSE [all_info |-> Append(infos, info),
             mip |-> remove_solution(solved, enumeration_type),
             k |-> kk + 1, removals |-> 1,
             done |-> ~ less_than(kk + 1, total_items), raised |-> FALSE]

\* one pass of the while loop of populate, and the return when it ends: 548-562
PopulateStep ==
    /\ pc = "populate"
    /\ k < MaxIter
    /\ \E sol \in solutions(mip) :
       \E raises \in set_lower_bounds_raises([mip EXCEPT !.solution = sol],
                                             enumeration_type) :
        LET pass == populate_pass(mip, sol, all_info, k, raises)
        IN /\ mip' = pass.mip
           /\ IF pass.done
              THEN /\ pc' = "idle"
                   /\ last' = IF pass.raised
                              THEN [op |-> "populate", raised |-> TRUE,
                                    error |-> "ValueError"]
                              ELSE [op |-> "populate", raised |-> FALSE,
                                    total_items |-> total_items,
                                    enumeration_type |-> enumeration_type,
                                    all_info |-> pass.all_info,
                                    n_removed |-> n_removed + pass.removals]
                   /\ k' = 0
                   /\ all_info' = << >>
                   /\ n_removed' = 0
              ELSE /\ all_info' = pass.all_info
                   /\ k' = pass.k
                   /\ n_removed' = n_removed + pass.removals
                   /\ UNCHANGED << pc, last >>
    /\ UNCHANGED << coefficients, intercept, actionable, mip_cost_type, x, min_items,
                    max_items, total_items, enumeration_type, calls >>

\* _check_mip_solution(info), lines 450-491: whether it raised, and the
\* warnings it emitted before returning True
\* np.isclose(a, b, rtol = 1 / rtol_inv, atol = 1e-8) on two finite floats:
\* |a - b| <= atol + rtol * |b|
isclose(a, b, rtol_inv) ==
    LET d == Abs(a.v * b.den - b.v * a.den)
        atol_inv == 100000000
    IN d <= (a.den * b.den + (atol_inv \div rtol_inv) * Abs(b.v) * a.den)
                \div atol_inv

check_mip_solution(info) ==
    IF ~ info.feasible THEN [raised |-> FALSE, error |-> "", warnings |-> {}]
    ELSE
    LET a == [j \in Features |-> info.actions[j].v]
        static_idx == {j \in Features : isclose(info.actions[j], Num(0), 10000)}
        action_idx == Features \ static_idx
        n_items == Cardinality(action_idx)
        xa == [j \in Features |-> x[j] + a[j]]
        not_flipped == prediction(x) = prediction(xa)
        costs_ok ==
            /\ \A j \in action_idx : info.costs[j].v > 0
            /\ \A j \in static_idx : isclose(info.costs[j], Num(0), 100000)
            /\ mip_cost_type = "total" =>
                    isclose(info.cost,
                            Num(SetSum(Features, [j \in Features |-> info.costs[j].v])),
                            100000)
        largest == SetMax({info.costs[j].v : j \in Features})
        max_ok == isclose(info.cost, Num(largest), 10000)
        raises == [raised |-> TRUE, error |-> "AssertionError", warnings |-> {}]
    IN IF n_items < 1 THEN raises
       ELSE IF ~ (min_items <= n_items /\ n_items <= max_items) THEN raises
       \* x is None: prediction(x) at line 470 scores the one-element array
       \* [nan], and the dot product of line 198 raises ValueError unless
       \* there is a single coefficient; x + a then raises TypeError
       ELSE IF x = NoX
       THEN [raises EXCEPT !.error = IF n_variables # 1 THEN "ValueError"
                                                        ELSE "TypeError"]
       ELSE IF not_flipped /\ IsCloseZero(score(xa)) THEN raises
       ELSE [raised |-> FALSE, error |-> "",
             warnings |->
                (IF action_idx \subseteq actionable_indices THEN {}
                 ELSE {"action set no in self.actionable_indices"})
                \cup (IF not_flipped THEN {"numerical issue: near-zero score(x + a)"}
                      ELSE {})
                \cup (IF ~ costs_ok THEN {"issue detected"}
                      ELSE IF mip_cost_type = "max" /\ ~ max_ok
                           THEN {"numerical issue: max_cost"} ELSE {})]

\* the action vectors of the records a caller hands to _check_mip_solution
CheckActions == {<< 0, 0, 0 >>, << 0, 1, 0 >>, << 0, 1, 1 >>}

\* a feasible record with the given actions, each change at cost 1
action_record(a) ==
    LET costs == [j \in Features |-> IF a[j] = 0 THEN 0 ELSE 1]
        cost == IF mip_cost_type = "max" THEN SetMax({costs[j] : j \in Features})
                ELSE SetSum(Features, costs)
    IN [cost |-> Num(cost),
        feasible |-> TRUE,
        costs |-> [j \in Features |-> Num(costs[j])],
        actions |-> [j \in Features |-> Num(a[j])],
        upperbound |-> Num(cost),
        lowerbound |-> Num(cost),
        gap |-> Num(0)]

\* the same record with its reported cost moved by shift: inside the
\* tolerance of np.isclose (1 / 100000), and outside it (1 / 1000)
CostShifts == {Rat(1, 100000), Rat(1, 1000)}

shifted_record(a, shift) ==
    LET info == action_record(a)
    IN [info EXCEPT !.cost = Rat(info.cost.v * shift.den + shift.v, shift.den)]

\* a call of _check_mip_solution on a record
CheckMipSolution(info) ==
    /\ CanCall
    /\ calls' = calls + 1
    /\ LET out == check_mip_solution(info)
       IN last' = IF out.raised
                  THEN [op |-> "_check_mip_solution", raised |-> TRUE,
                        error |-> out.error]
                  ELSE [op |-> "_check_mip_solution", raised |-> FALSE,
                        warnings |-> out.warnings]
    /\ UNCHANGED << coefficients, intercept, actionable, mip_cost_type, x, min_items,
                    max_items, mip, pc, k, total_items, enumeration_type, all_info,
                    n_removed >>

\* the limits handed to set_mip_item_limits: below, inside and above the
\* range 0..n_actionable
ItemLimits == {-1, 0, 2, n_actionable + 1}

\* an optional argument: None, or an integer
None == [none |-> TRUE]
Some(v) == [none |-> FALSE, v |-> v]

\* the min_items setter, lines 304-311: whether it raised, and the stored limit
min_items_setter(kk) ==
    IF kk.none THEN [raised |-> FALSE, min_items |-> 0]
    ELSE IF ~ (kk.v >= 0) THEN [raised |-> TRUE, min_items |-> min_items]
    ELSE [raised |-> FALSE, min_items |-> kk.v]

\* the max_items setter, lines 319-326
max_items_setter(kk) ==
    IF kk.none THEN [raised |-> FALSE, max_items |-> n_actionable]
    ELSE IF ~ (kk.v >= 0) THEN [raised |-> TRUE, max_items |-> max_items]
    ELSE [raised |-> FALSE,
          max_items |-> IF kk.v < n_actionable THEN kk.v ELSE n_actionable]

\* an assignment to the property min_items
SetMinItems(kk) ==
    /\ CanCall
    /\ calls' = calls + 1
    /\ min_items' = min_items_setter(kk).min_items
    /\ last' = IF min_items_setter(kk).raised
               THEN [op |-> "min_items", raised |-> TRUE, error |-> "AssertionError"]
               ELSE [op |-> "min_items", raised |-> FALSE]
    /\ UNCHANGED << coefficients, intercept, actionable, mip_cost_type, x, max_items,
                    mip, pc, k, total_items, enumeration_type, all_info, n_removed >>

\* an assignment to the property max_items
SetMaxItems(kk) ==
    /\ CanCall
    /\ calls' = calls + 1
    /\ max_items' = max_items_setter(kk).max_items
    /\ last' = IF max_items_setter(kk).raised
               THEN [op |-> "max_items", raised |-> TRUE, error |-> "AssertionError"]
               ELSE [op |-> "max_items", raised |-> FALSE]
    /\ UNCHANGED << coefficients, intercept, actionable, mip_cost_type, x, min_items,
                    mip, pc, k, total_items, enumeration_type, all_info, n_removed >>

\* the right-hand sides handed to set_mip_min_items and set_mip_max_items
RowLimits == {0, 1, 2}

\* a direct call of set_mip_min_items: lines 816-822
SetMipMinItems(n_items) ==
    /\ CanCall
    /\ calls' = calls + 1
    /\ IF ~ mip.present
       THEN /\ last' = [op |-> "set_mip_min_items", raised |-> TRUE,
                        error |-> "AttributeError"]
            /\ UNCHANGED mip
       ELSE /\ last' = [op |-> "set_mip_min_items", raised |-> FALSE]
            /\ mip' = set_mip_min_items(mip, n_items)
    /\ UNCHANGED << coefficients, intercept, actionable, mip_cost_type, x, min_items,
                    max_items, pc, k, total_items, enumeration_type, all_info,
                    n_removed >>

\* a direct call of set_mip_max_items: lines 825-831
SetMipMaxItems(n_items) ==
    /\ CanCall
    /\ calls' = calls + 1
    /\ IF ~ mip.present
       THEN /\ last' = [op |-> "set_mip_max_items", raised |-> TRUE,
                        error |-> "AttributeError"]
            /\ UNCHANGED mip
       ELSE /\ last' = [op |-> "set_mip_max_items", raised |-> FALSE]
            /\ mip' = set_mip_max_items(mip, n_items)
    /\ UNCHANGED << coefficients, intercept, actionable, mip_cost_type, x, min_items,
                    max_items, pc, k, total_items, enumeration_type, all_info,
                    n_removed >>

\* a direct call of remove_all_features or of remove_feature_combination,
\* outside populate: without a MIP the read of mip_indices raises
\* AttributeError, without a feasible solution mip.solution.get_values raises
\* CplexSolverError
remove_direct(op, et) ==
    /\ CanCall
    /\ calls' = calls + 1
    /\ IF ~ mip.present
       THEN /\ last' = [op |-> op, raised |-> TRUE, error |-> "AttributeError"]
            /\ UNCHANGED mip
       ELSE IF ~ (mip.solution.solved /\ mip.solution.feasible)
       THEN /\ last' = [op |-> op, raised |-> TRUE, error |-> "CplexSolverError"]
            /\ UNCHANGED mip
       ELSE \E raises \in set_lower_bounds_raises(mip, et) :
            IF raises
            THEN /\ last' = [op |-> op, raised |-> TRUE, error |-> "ValueError"]
                 /\ UNCHANGED mip
            ELSE /\ last' = [op |-> op, raised |-> FALSE]
                 /\ mip' = remove_solution(mip, et)
    /\ UNCHANGED << coefficients, intercept, actionable, mip_cost_type, x, min_items,
                    max_items, pc, k, total_items, enumeration_type, all_info,
                    n_removed >>

\* remove_all_features, lines 834-844, called directly
RemoveAllFeatures == remove_direct("remove_all_features", "mutually_exclusive")

\* remove_feature_combination, lines 847-866, called directly
RemoveFeatureCombination ==
    remove_direct("remove_feature_combination", "distinct_subsets")

Next ==
    \/ \E xs \in Inputs : SetX(xs)
    \/ \E mn, mx \in ItemLimits : SetMipItemLimits(mn, mx)
    \/ \E kk \in {None, Some(-1), Some(2)} : SetMinItems(kk)
    \/ \E kk \in {None, Some(-1), Some(2)} : SetMaxItems(kk)
    \/ \E n_items \in RowLimits : SetMipMinItems(n_items)
    \/ \E n_items \in RowLimits : SetMipMaxItems(n_items)
    \/ RemoveAllFeatures
    \/ RemoveFeatureCombination
    \/ SetMipItemLimitsNone
    \/ Fit
    \/ \E ti \in TotalItems, et \in EnumerationTypes : Populate(ti, et)
    \/ PopulateStep
    \/ \E info \in {empty_mip_solution_info}
                    \cup {action_record(a) : a \in CheckActions}
                    \cup {shifted_record(<< 0, 1, 0 >>, shift) : shift \in CostShifts}
                    \cup (IF last.op = "fit" /\ ~ last.raised THEN {last.info} ELSE {}) :
            CheckMipSolution(info)

Spec == Init /\ [][Next]_vars

\* the builders with every feature actionable and cost type total
LiveInit == Init /\ mip_cost_type = "total" /\ n_actionable = n_variables

\* the while loop of populate runs on once populate is called
LiveSpec == LiveInit /\ [][Next]_vars /\ WF_vars(PopulateStep)

(***************************************************************************)
(* properties                                                              *)
(***************************************************************************)
Range(s) == {s[i] : i \in DOMAIN s}

FitReturned == last.op = "fit" /\ ~ last.raised

PopulateReturned == last.op = "populate" /\ ~ last.raised

\* the records returned by the last fit or populate, and those populate holds
ReturnedRecords ==
    (IF FitReturned THEN {last.info} ELSE {})
        \cup (IF PopulateReturned THEN Range(last.all_info) ELSE {})
        \cup Range(all_info)

\* the features a feasible record changes
changed(info) == {j \in Features : info.actions[j].v # 0}

\* x + actions
moved(info) == [j \in Features |-> x[j] + info.actions[j].v]

Flips(info) ==
    \/ prediction(x) # prediction(moved(info))
    \/ IsCloseZero(score(moved(info)))

\* C1: every feasible record returned by fit or populate, whatever the sign of
\* score(x), flips the predicted sign at x, or leaves the score within 1e-4 of 0.
C1_FlipGuarantee == \A info \in ReturnedRecords : info.feasible => Flips(info)

\* the limits the claims call valid: 0 <= min_items <= max_items <= n_actionable
ValidLimits(mn, mx) == 0 <= mn /\ mn <= mx /\ mx <= n_actionable

\* C2: with valid stored limits, left at their defaults or set through
\* set_mip_item_limits, every feasible record returned by fit or populate
\* changes a number of features within [min_items, max_items].
C2_ItemsWithinLimits ==
    ValidLimits(min_items, max_items) =>
        \A info \in ReturnedRecords :
            info.feasible =>
                /\ min_items <= Cardinality(changed(info))
                /\ Cardinality(changed(info)) <= max_items

\* the lists of one populate call under a policy: the list being built, and
\* the list returned
PopulateLists(et) ==
    (IF pc = "populate" /\ enumeration_type = et THEN {all_info} ELSE {})
        \cup (IF PopulateReturned /\ last.enumeration_type = et
              THEN {last.all_info} ELSE {})

\* C3: under distinct_subsets no two records of one populate call change the
\* same set of features.
C3_DistinctSubsets ==
    \A infos \in PopulateLists("distinct_subsets") :
        \A i, j \in DOMAIN infos :
            i < j => changed(infos[i]) # changed(infos[j])

C3_Witness ==
    /\ PopulateReturned
    /\ last.enumeration_type = "distinct_subsets"
    /\ Len(last.all_info) >= 3
    /\ \E i, j \in DOMAIN last.all_info :
            /\ i < j
            /\ changed(last.all_info[i]) \cap changed(last.all_info[j]) # {}

\* C4: under mutually_exclusive the sets of features changed by any two records
\* of one populate call are disjoint: a feature changed by a record stays
\* untouched in every later record.
C4_MutuallyExclusive ==
    \A infos \in PopulateLists("mutually_exclusive") :
        \A i, j \in DOMAIN infos :
            i < j => changed(infos[i]) \cap changed(infos[j]) = {}

C4_Witness ==
    /\ PopulateReturned
    /\ last.enumeration_type = "mutually_exclusive"
    /\ Len(last.all_info) >= 2
    /\ \A i \in DOMAIN last.all_info : changed(last.all_info[i]) # {}

\* Cost(a) of a point of the MIP: the sum of the per-feature costs for total
\* and local, their maximum for max
true_cost(m, p) ==
    IF mip_cost_type = "max"
    THEN SetMax({0} \cup {point_cost(m, p, j) : j \in DOMAIN m.build_info})
    ELSE sum_costs(m, p)

record_true_cost(info) ==
    IF mip_cost_type = "max"
    THEN SetMax({info.costs[j].v : j \in Features})
    ELSE SetSum(Features, [j \in Features |-> info.costs[j].v])

\* C5: a feasible record returned by fit on a MIP without exclusions has the
\* minimum Cost(a) over all actions that satisfy the flip, 1-of-K and
\* cardinality constraints; for max, the minimum of the largest per-feature cost.
C5_FitMinimumCost ==
    (FitReturned /\ last.info.feasible /\ mip.off_lb = {} /\ mip.removed = << >>) =>
        \A p \in mip_points(mip) :
            (score_constraint(mip, p) /\ items_constraints(mip, p)) =>
                record_true_cost(last.info) <= true_cost(mip, p)

\* C6: under cost type max the cost of every feasible record equals the largest
\* entry of its costs vector, within a relative tolerance of 1e-4.
C6_MaxCostConsistency ==
    mip_cost_type = "max" =>
        \A info \in ReturnedRecords :
            info.feasible =>
                LET largest == SetMax({info.costs[j].v : j \in Features})
                IN Abs(info.cost.v - largest * info.cost.den) * 10000
                        <= Abs(largest * info.cost.den)

C6_Witness ==
    /\ mip_cost_type = "max"
    /\ FitReturned
    /\ last.info.feasible
    /\ \E i, j \in Features :
            /\ last.info.costs[i].v > 0
            /\ last.info.costs[j].v > last.info.costs[i].v
    /\ last.info.cost.v = SetMax({last.info.costs[j].v : j \in Features})

less_equal(n, ti) == ti.kind = "inf" \/ n <= ti.v

C7_State ==
    /\ pc = "populate" =>
            /\ Len(all_info) = k
            /\ n_removed = Len(all_info)
            /\ less_than(Len(all_info), total_items)
            /\ \A i \in DOMAIN all_info : all_info[i].feasible
    /\ PopulateReturned =>
            /\ less_equal(Len(last.all_info), last.total_items)
            /\ last.n_removed = Len(last.all_info)
            /\ \A i \in DOMAIN last.all_info : last.all_info[i].feasible

C7_Step ==
    (pc = "populate" /\ ~ last'.raised) =>
        LET out == IF pc' = "idle" THEN last'.all_info ELSE all_info'
        IN IF mip'.solution.feasible
           THEN /\ out = Append(all_info, solution_info(mip'))
                /\ IF enumeration_type = "mutually_exclusive"
                   THEN /\ mip'.off_lb = mip.off_lb \cup on_idx(mip')
                        /\ mip'.removed = mip.removed
                   ELSE /\ mip'.off_lb = mip.off_lb
                        /\ Len(mip'.removed) = Len(mip.removed) + 1
           ELSE /\ pc' = "idle"
                /\ out = all_info
                /\ mip'.off_lb = mip.off_lb
                /\ mip'.removed = mip.removed

\* C7: populate returns the records in the order they were solved, at most
\* total_items of them, all feasible; the loop stops at the first infeasible
\* solve without recording it or adding an exclusion, and exactly one exclusion
\* step follows each recorded solution.
C7_PopulateLoop == [] C7_State /\ [][C7_Step]_vars

C7_Witness ==
    /\ PopulateReturned
    /\ last.total_items = Inf
    /\ Len(last.all_info) >= 2
    /\ ~ mip.solution.feasible

\* C8: populate(total_items = inf, 'mutually_exclusive') ends by returning at
\* most n_actionable records: the loop never holds more than n_actionable
\* records and never aborts, and with one actionable feature it returns one
\* record at most.
C8_MutuallyExclusiveTerminates ==
    /\ ~ (last.op = "populate" /\ last.raised /\ last.error = "ValueError")
    /\ (pc = "populate" /\ enumeration_type = "mutually_exclusive" /\ total_items = Inf)
            => Len(all_info) <= n_actionable
    /\ (PopulateReturned /\ last.enumeration_type = "mutually_exclusive"
            /\ last.total_items = Inf)
            => Len(last.all_info) <= n_actionable

\* the record of an infeasible solve with the given entries in its vectors
sentinel(entry) ==
    [cost |-> Inf, feasible |-> FALSE,
     costs |-> [j \in Features |-> entry], actions |-> [j \in Features |-> entry],
     upperbound |-> Inf, lowerbound |-> Inf, gap |-> Inf]

\* C9 as stated: the record of an infeasible solve has feasible = false,
\* infinite cost, upperbound, lowerbound and gap, and actions and costs vectors
\* of feature length that are all zeros.
C9_InfeasibleRecordZeros ==
    (FitReturned /\ ~ mip.solution.feasible) => last.info = sentinel(Num(0))

\* C9 as amended: the record of an infeasible solve has feasible = false,
\* infinite cost, upperbound, lowerbound and gap, and actions and costs vectors
\* of feature length whose entries are all NaN.
C9_InfeasibleRecordNaN ==
    (FitReturned /\ ~ mip.solution.feasible) => last.info = sentinel(NaN)

C9_Witness == FitReturned /\ ~ mip.solution.feasible /\ ~ last.info.feasible

\* C10: set_mip_item_limits with min_items > max_items, or with either limit
\* outside [0, n_actionable], raises and leaves the stored limits and the MIP
\* unchanged.
C10_InvalidLimitsRejected ==
    [][\A mn, mx \in (-1)..(n_actionable + 1) :
            (~ ValidLimits(mn, mx) /\ SetMipItemLimits(mn, mx)) =>
                /\ last'.raised
                /\ min_items' = min_items
                /\ max_items' = max_items
                /\ mip' = mip]_vars

\* C11: on a built MIP, set_mip_item_limits with valid limits, whether it
\* changes both limits or only one of them, completes, stores the two arguments,
\* leaves 'min_items' with right-hand side n_actionable - min_items and
\* 'max_items' with right-hand side n_actionable - max_items, and changes
\* nothing else of the MIP.
C11_LimitsUpdatedInPlace ==
    [][\A mn, mx \in 0..n_actionable :
            (mip.present /\ ValidLimits(mn, mx) /\ SetMipItemLimits(mn, mx)) =>
                /\ ~ last'.raised
                /\ min_items' = mn
                /\ max_items' = mx
                /\ mip' = [mip EXCEPT !.min_items_rhs = n_actionable - mn,
                                      !.max_items_rhs = n_actionable - mx]]_vars

\* C12: while the stored min_items exceeds the number of actionable features,
\* every solve is infeasible: fit returns an infeasible record and populate
\* records nothing.
C12_MinItemsUnsatisfiable ==
    min_items > n_actionable =>
        /\ FitReturned => ~ last.info.feasible
        /\ PopulateReturned => last.all_info = << >>
        /\ pc = "populate" => all_info = << >>

\* C13: every curve of a built MIP has at least 2 points, starts at (0, 0),
\* has later deltas that are non-zero with the sign that raises
\* coefficient * delta, has no duplicate delta and no duplicate cost, and has a
\* cost that does not decrease as |delta| grows.
C13_CurveInvariants ==
    mip.present =>
        \A j \in DOMAIN mip.build_info :
            LET a == mip.build_info[j].actions
                c == mip.build_info[j].costs
                w == mip.build_info[j].coef
            IN /\ Len(a) >= 2
               /\ Len(c) = Len(a)
               /\ a[1] = 0
               /\ c[1] = 0
               /\ \A i \in 2..Len(a) : w * a[i] > 0
               /\ \A i, i2 \in DOMAIN a : i # i2 => (a[i] # a[i2] /\ c[i] # c[i2])
               /\ \A i, i2 \in DOMAIN a : Abs(a[i]) <= Abs(a[i2]) => c[i] <= c[i2]

C13_Witness ==
    /\ mip.present
    /\ last.op = "x"
    /\ \E j \in DOMAIN mip.build_info : Len(mip.build_info[j].actions) = 3
    /\ \E j \in DOMAIN mip.build_info :
            /\ mip.build_info[j].coef < 0
            /\ mip.build_info[j].actions[2] < 0

\* C14: an assignment of x builds a MIP only if every actionable feature has a
\* non-zero coefficient and a curve of at least 2 points; any other assignment
\* fails, so a successful build encodes exactly the n_actionable features.
C14_BuildRejectsBadCurves ==
    (last.op = "x" /\ ~ last.raised) =>
        /\ \A j \in actionable_indices :
                /\ coefficients[j] # 0
                /\ j \in DOMAIN mip.build_info
                /\ Len(mip.build_info[j].actions) >= 2
        /\ Cardinality(DOMAIN mip.build_info) = n_actionable

\* C15: _check_mip_solution never aborts its caller: on every record, feasible
\* or not, it returns True, emitting warnings at most, also when the number of
\* changed features is outside [min_items, max_items] and when the prediction
\* is not flipped but the score after the action is within 1e-4 of zero.
C15_CheckNeverAborts == last.op = "_check_mip_solution" => ~ last.raised

\* the changed-feature set that one added inequality excludes
excluded_set(con) == {j \in DOMAIN con.vals : con.vals[j] = -1}

IsPrefix(s, t) == Len(s) <= Len(t) /\ \A i \in DOMAIN s : s[i] = t[i]

C16_Rebuilt ==
    (pc = "idle" /\ last.op = "x" /\ ~ last.raised) =>
        (mip.off_lb = {} /\ mip.removed = << >>)

C16_Step ==
    (mip.present /\ ~ (last'.op = "x" /\ ~ last'.raised /\ calls' # calls)) =>
        /\ mip.off_lb \subseteq mip'.off_lb
        /\ IsPrefix(mip.removed, mip'.removed)
        /\ (mip'.solution # mip.solution /\ mip'.solution.feasible) =>
                /\ on_idx([mip EXCEPT !.solution = mip'.solution]) \cap mip.off_lb = {}
                /\ \A i \in DOMAIN mip.removed :
                        excluded_set(mip.removed[i])
                            # on_idx([mip EXCEPT !.solution = mip'.solution])

\* C16: the exclusions of a built MIP only grow: no fit, populate or
\* set_mip_item_limits call removes a bound or an inequality that an earlier
\* populate step added, so no later solve changes a feature fixed earlier or
\* returns a changed-feature set excluded earlier; a successful assignment of
\* x leaves a MIP without exclusions.
C16_ExclusionsOnlyGrow == [] C16_Rebuilt /\ [][C16_Step]_vars

C16_Witness ==
    /\ PopulateReturned
    /\ Len(last.all_info) >= 1
    /\ mip.off_lb # {}
    /\ Len(mip.removed) >= 2

C17_State ==
    mip.present =>
        /\ x # NoX
        /\ mip.score_rhs = - score(x)
        /\ mip.build_info = get_mip_build_info(x)

C17_Step ==
    \A xs \in Inputs :
        (SetX(xs) /\ last'.raised) => (x' = x /\ mip' = mip)

\* C17: a MIP that is present was built from the stored x: its 'score'
\* right-hand side is -score(x) and its curves are the deltas from x; an
\* assignment of x that raises, for a wrong length or a failed build, leaves
\* the stored x and the MIP as they were.
C17_MipBuiltFromX == [] C17_State /\ [][C17_Step]_vars

\* the features a point of the MIP changes
on_set(m, p) == {j \in DOMAIN m.build_info : off(p, j) = 0}

\* the changed-feature sets that admit an action satisfying the 'score',
\* 'max_items' and 'min_items' constraints of the MIP
feasible_subsets(m) ==
    {on_set(m, p) : p \in {q \in mip_points(m) :
                                score_constraint(m, q) /\ items_constraints(m, q)}}

\* the inequality a distinct_subsets pass adds is violated by the pattern of
\* the solution and satisfied by every other pattern
C18_Step ==
    (mip.present /\ mip'.present /\ Len(mip'.removed) = Len(mip.removed) + 1) =>
        \A p \in mip_points(mip) :
            removed_constraint(mip, p, mip'.removed[Len(mip'.removed)])
                <=> on_set(mip, p) # on_idx([mip EXCEPT !.solution = mip'.solution])

C18_ReturnsAll(fresh) ==
    (PopulateReturned /\ last.enumeration_type = "distinct_subsets"
        /\ last.total_items = Inf /\ fresh) =>
        /\ {changed(last.all_info[i]) : i \in DOMAIN last.all_info} = feasible_subsets(mip)
        /\ Len(last.all_info) = Cardinality(feasible_subsets(mip))

C18_Terminates ==
    (pc = "populate" /\ enumeration_type = "distinct_subsets") ~> (pc = "idle")

\* C18 as stated: the inequality added by remove_feature_combination excludes
\* exactly the pattern of the current solution, and every
\* populate(total_items = inf, 'distinct_subsets') terminates and returns
\* exactly one record for each changed-feature set that admits an action
\* satisfying the flip and cardinality constraints.
C18_ExactExclusionAnyMip ==
    /\ [][C18_Step]_vars
    /\ [] C18_ReturnsAll(TRUE)
    /\ C18_Terminates

\* C18 as amended: the same, for a populate call on a MIP that carries no
\* exclusion added before the call.
C18_ExactExclusion ==
    /\ [][C18_Step]_vars
    /\ [] C18_ReturnsAll(mip.off_lb = {} /\ Len(mip.removed) = Len(last.all_info))
    /\ C18_Terminates

C18_Witness ==
    /\ PopulateReturned
    /\ last.enumeration_type = "distinct_subsets"
    /\ last.total_items = Inf
    /\ mip.off_lb = {}
    /\ Len(mip.removed) = Len(last.all_info)
    /\ Len(last.all_info) >= 4
    /\ Cardinality(feasible_subsets(mip)) < 7

\* v <= w for two finite floats
rat_leq(v, w) == v.v * w.den <= w.v * v.den

\* C19: under every cost type and either enumeration policy the cost of the
\* records of one populate call does not decrease along the list.
C19_CostsNonDecreasing ==
    \A et \in EnumerationTypes :
        \A infos \in PopulateLists(et) :
            \A i, j \in DOMAIN infos :
                i < j => rat_leq(infos[i].cost, infos[j].cost)

====
